---- MODULE Spec2Model ----
(***************************************************************************)
(* Model of the three MCP tool servers of the repository:                  *)
(*   src/mysql_server_std.py   (relational store, lazily created pool)     *)
(*   src/redis_server_std.py   (key-value store, pool built at import)     *)
(*   src/file_search_server.py (code search, dependency scan, registries)  *)
(*                                                                         *)
(* A Python string is a sequence of pieces (characters or whole literal    *)
(* fragments of an f-string); concatenation is \o.  An argument bag is a   *)
(* function whose DOMAIN is the set of fields the caller sent.  Each       *)
(* coroutine is cut at its awaits: one action per stretch of code that     *)
(* runs without suspension.                                                *)
(***************************************************************************)
EXTENDS Integers, Sequences, FiniteSets, TLC

\* ------------------------------------------------------------- bounds
\* Number of tool calls of one server that may be in flight together.
MaxCalls == 2
\* Longest Redis list the model lets list_push build.
MaxListLen == 2
\* Largest number of lines of a searched file.
MaxLines == 7

\* ------------------------------------------------------------- strings
\* str.lower() on the characters the model uses.
LowerChar(ch) ==
    CASE ch = "A" -> "a"
      [] ch = "B" -> "b"
      [] ch = "S" -> "s"
      [] ch = "H" -> "h"
      [] ch = "O" -> "o"
      [] ch = "W" -> "w"
      [] ch = "E" -> "e"
      [] ch = "T" -> "t"
      [] OTHER -> ch

Lower(s) == [i \in 1..Len(s) |-> LowerChar(s[i])]

\* sub in s  (Python substring test)
Contains(s, sub) ==
    \E i \in 0..(Len(s) - Len(sub)) : SubSeq(s, i + 1, i + Len(sub)) = sub

\* s.startswith(prefix)
StartsWith(s, prefix) ==
    /\ Len(prefix) <= Len(s)
    /\ SubSeq(s, 1, Len(prefix)) = prefix

\* sep.join(parts), parts and the result being sequences of pieces
RECURSIVE Join(_, _)
Join(parts, sep) ==
    IF parts = << >> THEN << >>
    ELSE IF Len(parts) = 1 THEN parts[1]
    ELSE parts[1] \o sep \o Join(Tail(parts), sep)

\* arguments.get(field, default)
Get(arguments, field, default) ==
    IF field \in DOMAIN arguments THEN arguments[field] ELSE default

\* f"{arguments.get(field)}": an absent field is None and formats as "None"
FmtArg(arguments, field) == Get(arguments, field, <<"None">>)

\* The argument bags a caller may send, given the complete bags `full` over
\* `fields`: each complete bag with any subset of its fields left out.
Bags(fields, full) ==
    { [f \in S |-> r[f]] : r \in full, S \in SUBSET fields }

TextResult(text) == [kind |-> "text", text |-> text]
Raised(text) == [kind |-> "raised", text |-> text]
NoResult == [kind |-> "none", text |-> << >>]

\* f"错误：未知工具：{name}"
UnknownTool(name) == TextResult(<<"unknown tool: ", name>>)

VARIABLES
    \* --- MySQL server
    pool,       \* the module global `pool`: 0 is None, else a pool id
    pools,      \* pools[p]: the free connections of pool p, oldest first,
                \* each connection being its active database
    mysqlUp,    \* whether the MySQL backend accepts connections/statements
    lastUse,    \* database of the last use_database that returned success
    mcalls,     \* one record per call slot of the MySQL server
    \* --- Redis server
    store,      \* Redis keyspace: key -> [type, val, ttl]
    redisUp,    \* whether the Redis backend is reachable
    rcalls,     \* one record per call slot of the Redis server
    \* --- file/dev-tools server
    fcalls,     \* one record per call slot of the dev-tools server
    \* --- get_context as a pure function
    content,    \* the file's text
    query,      \* the search string
    matches     \* [done, blocks]: get_context's `matches` list once it has run

mysqlVars == <<pool, pools, mysqlUp, lastUse, mcalls>>
redisVars == <<store, redisUp, rcalls>>
fileVars == <<fcalls>>
ctxVars == <<content, query, matches>>
vars == <<pool, pools, mysqlUp, lastUse, mcalls, store, redisUp, rcalls,
          fcalls, content, query, matches>>

Calls == 1..MaxCalls


\* ====================================================== MySQL server
\* MYSQL_DB = os.getenv("MYSQL_DB", ""): the database every new connection opens
MYSQL_DB == << >>

MySQLTools == {"execute_query", "list_tables", "describe_table", "list_databases",
               "use_database", "insert_data", "delete_data", "update_data"}

\* The required fields of list_tools()' inputSchema, per tool.
MySQLRequired(name) ==
    CASE name = "execute_query" -> {"sql"}
      [] name = "describe_table" -> {"table_name"}
      [] name = "use_database" -> {"database"}
      [] name = "insert_data" -> {"table_name", "data"}
      [] name = "delete_data" -> {"table_name", "condition"}
      [] name = "update_data" -> {"table_name", "data", "condition"}
      [] OTHER -> {}

\* The inputs the model sends: names (one of them not a tool) and bags.
MySQLNames == MySQLTools \cup {"drop_everything"}
SqlTexts == { <<"S", "h", "o", "w">>, <<"s", "e", "t">>, <<" ", "s", "h", "o", "w">> }
TableNames == { <<"t">> }
Conditions == { <<"id = 1">> }
Databases == { <<"db1">> }
\* a dict of column -> value, in insertion order
DataMaps == { << <<"a", "1">>, <<"b", "2">> >>, << <<"c", "3">>, <<"b", "2">> >> }

MySQLFields(name) ==
    CASE name \in {"execute_query", "drop_everything"} -> {"sql"}
      [] name = "describe_table" -> {"table_name"}
      [] name = "use_database" -> {"database"}
      [] name = "insert_data" -> {"table_name", "data"}
      [] name = "delete_data" -> {"table_name", "condition"}
      [] name = "update_data" -> {"table_name", "data", "condition"}
      [] OTHER -> {}

MySQLFullBags(name) ==
    CASE name \in {"execute_query", "drop_everything"} -> [sql : SqlTexts]
      [] name = "describe_table" -> [table_name : TableNames]
      [] name = "use_database" -> [database : Databases]
      [] name = "insert_data" -> [table_name : TableNames, data : DataMaps]
      [] name = "delete_data" -> [table_name : TableNames, condition : Conditions]
      [] name = "update_data" -> [table_name : TableNames, data : DataMaps,
                                  condition : Conditions]
      [] OTHER -> { << >> }

MySQLBags(name) == Bags(MySQLFields(name), MySQLFullBags(name))

\* list(data.keys()) and list(data.values()), each key/value a one-piece string
Keys(data) == [i \in 1..Len(data) |-> <<data[i][1]>>]
Values(data) == [i \in 1..Len(data) |-> data[i][2]]

\* sql = f"INSERT INTO {table_name} ({', '.join(columns)}) VALUES ({', '.join(placeholders)})"
InsertSql(arguments) ==
    LET data == arguments["data"]
        placeholders == [i \in 1..Len(data) |-> <<"%s">>]
    IN <<"INSERT INTO ">> \o FmtArg(arguments, "table_name") \o <<" (">>
       \o Join(Keys(data), <<", ">>) \o <<") VALUES (">>
       \o Join(placeholders, <<", ">>) \o <<")">>

\* sql = f"DELETE FROM {table_name} WHERE {condition}"
DeleteSql(arguments) ==
    <<"DELETE FROM ">> \o FmtArg(arguments, "table_name") \o <<" WHERE ">>
    \o FmtArg(arguments, "condition")

\* set_clause = ", ".join([f"{k} = %s" for k in data.keys()])
\* sql = f"UPDATE {table_name} SET {set_clause} WHERE {condition}"
UpdateSql(arguments) ==
    LET data == arguments["data"]
        sets == [i \in 1..Len(data) |-> <<data[i][1], " = %s">>]
    IN <<"UPDATE ">> \o FmtArg(arguments, "table_name") \o <<" SET ">>
       \o Join(sets, <<", ">>) \o <<" WHERE ">> \o FmtArg(arguments, "condition")

\* The statement text a handler hands to cur.execute().
StatementOf(name, arguments) ==
    CASE name = "execute_query" -> Get(arguments, "sql", << >>)
      [] name = "list_tables" -> <<"SHOW TABLES">>
      [] name = "describe_table" -> <<"DESCRIBE ">> \o FmtArg(arguments, "table_name")
      [] name = "list_databases" -> <<"SHOW DATABASES">>
      [] name = "use_database" -> <<"USE ">> \o FmtArg(arguments, "database")
      [] name = "insert_data" -> InsertSql(arguments)
      [] name = "delete_data" -> DeleteSql(arguments)
      [] name = "update_data" -> UpdateSql(arguments)

\* The second argument of cur.execute(): the bound parameters.
ParamsOf(name, arguments) ==
    IF name \in {"insert_data", "update_data"} THEN Values(arguments["data"])
    ELSE << >>

\* sql.lower().startswith(("select", "show", "desc", "describe"))
ReadVerbs == { <<"s", "e", "l", "e", "c", "t">>, <<"s", "h", "o", "w">>,
               <<"d", "e", "s", "c">>, <<"d", "e", "s", "c", "r", "i", "b", "e">> }
IsReadStatement(sql) == \E v \in ReadVerbs : StartsWith(Lower(sql), v)

\* The text each handler's `except Exception as e` puts before str(e).
FailPrefix(name) ==
    CASE name = "execute_query" -> "execute_query failed: "
      [] name = "list_tables" -> "list_tables failed: "
      [] name = "describe_table" -> "describe_table failed: "
      [] name = "list_databases" -> "list_databases failed: "
      [] name = "use_database" -> "use_database failed: "
      [] name = "insert_data" -> "insert_data failed: "
      [] name = "delete_data" -> "delete_data failed: "
      [] name = "update_data" -> "update_data failed: "

HandlerError(name, message) == TextResult(<<FailPrefix(name), message>>)

\* The text a handler returns once cur.execute() succeeded; rows is what
\* fetchall() gave (or, for a write, as many pieces as rows were affected).
SuccessResult(name, arguments, rows) ==
    CASE name = "execute_query" ->
            IF IsReadStatement(arguments["sql"])
            THEN TextResult(<<"query result: ">> \o rows)
            ELSE TextResult(<<"executed, affected rows: ", ToString(Len(rows))>>)
      [] name = "list_tables" ->
            IF rows = << >> THEN TextResult(<<"no tables in current database">>)
            ELSE TextResult(<<"tables: ">> \o rows)
      [] name = "describe_table" ->
            IF rows = << >>
            THEN TextResult(<<"table ">> \o FmtArg(arguments, "table_name")
                            \o <<" does not exist">>)
            ELSE TextResult(<<"table ">> \o FmtArg(arguments, "table_name")
                            \o <<" structure: ">> \o rows)
      [] name = "list_databases" ->
            IF rows = << >> THEN TextResult(<<"no databases found">>)
            ELSE TextResult(<<"databases: ">> \o rows)
      [] name = "use_database" ->
            TextResult(<<"switched to database: ">> \o FmtArg(arguments, "database"))
      [] name = "insert_data" ->
            TextResult(<<"inserted into ">> \o FmtArg(arguments, "table_name")
                       \o <<", affected rows: ", ToString(Len(rows))>>)
      [] name = "delete_data" ->
            TextResult(<<"deleted from ">> \o FmtArg(arguments, "table_name")
                       \o <<", affected rows: ", ToString(Len(rows))>>)
      [] name = "update_data" ->
            TextResult(<<"updated ">> \o FmtArg(arguments, "table_name")
                       \o <<", affected rows: ", ToString(Len(rows))>>)

IdleMCall ==
    [pc |-> "idle", name |-> "", arguments |-> << >>, lpool |-> 0, conn |-> << >>,
     stmt |-> << >>, params |-> << >>, sent |-> FALSE, db |-> << >>,
     expectDb |-> <<"-">>, result |-> NoResult]

\* call_tool from `pool = await get_pool()` returning p up to the handler's
\* first await: the unknown-tool branch returns at once, insert_data and
\* update_data fail on data.keys() when data is None, every other handler
\* goes on to pool.acquire().
Dispatch(call, p) ==
    IF call.name \notin MySQLTools
    THEN [call EXCEPT !.pc = "done", !.lpool = p, !.result = UnknownTool(call.name)]
    ELSE IF call.name \in {"insert_data", "update_data"}
            /\ "data" \notin DOMAIN call.arguments
    THEN [call EXCEPT !.pc = "done", !.lpool = p,
            !.result = HandlerError(call.name, "AttributeError: 'NoneType' object has no attribute 'keys'")]
    ELSE [call EXCEPT !.pc = "acquire", !.lpool = p,
            !.stmt = StatementOf(call.name, call.arguments),
            !.params = ParamsOf(call.name, call.arguments)]

\* get_pool(), lines 24-26: `if pool is None:` and the start of
\* `await aiomysql.create_pool(...)`, or `return pool` when it is set.
get_pool(call) ==
    IF pool = 0 THEN [call EXCEPT !.pc = "create_pool"]
    ELSE Dispatch(call, pool)

\* A client calls a tool: call_tool runs up to its first suspension.
MCallTool(c, name, arguments) ==
    /\ mcalls[c].pc \in {"idle", "done"}
    /\ mcalls' = [mcalls EXCEPT ![c] =
          get_pool([IdleMCall EXCEPT !.name = name, !.arguments = arguments,
                                     !.expectDb = lastUse])]
    /\ UNCHANGED <<pool, pools, mysqlUp, lastUse>>
    /\ UNCHANGED <<redisVars, fileVars, ctxVars>>

\* aiomysql.create_pool() completes: the new pool (minsize 1: one connection
\* on MYSQL_DB) is assigned to the global and returned, or the connection
\* error leaves get_pool and call_tool as an exception.
MCreatePoolDone(c) ==
    /\ mcalls[c].pc = "create_pool"
    /\ IF mysqlUp
       THEN LET p == Len(pools) + 1
            IN /\ pool' = p
               /\ pools' = Append(pools, <<MYSQL_DB>>)
               /\ mcalls' = [mcalls EXCEPT ![c] = Dispatch(mcalls[c], p)]
       ELSE /\ mcalls' = [mcalls EXCEPT ![c] =
                  [@ EXCEPT !.pc = "done",
                            !.result = Raised(<<"OperationalError: can't connect">>)]]
            /\ UNCHANGED <<pool, pools>>
    /\ UNCHANGED <<mysqlUp, lastUse>>
    /\ UNCHANGED <<redisVars, fileVars, ctxVars>>

\* `async with pool.acquire() as conn`: the oldest free connection of the
\* call's pool, or a new connection on MYSQL_DB when none is free.
MAcquire(c) ==
    /\ mcalls[c].pc = "acquire"
    /\ LET p == mcalls[c].lpool IN
       IF pools[p] # << >>
       THEN /\ pools' = [pools EXCEPT ![p] = Tail(@)]
            /\ mcalls' = [mcalls EXCEPT ![c] =
                  [@ EXCEPT !.pc = "execute", !.conn = Head(pools[p])]]
       ELSE IF mysqlUp
       THEN /\ mcalls' = [mcalls EXCEPT ![c] =
                  [@ EXCEPT !.pc = "execute", !.conn = MYSQL_DB]]
            /\ UNCHANGED pools
       ELSE /\ mcalls' = [mcalls EXCEPT ![c] =
                  [@ EXCEPT !.pc = "done",
                     !.result = HandlerError(mcalls[c].name, "OperationalError: can't connect")]]
            /\ UNCHANGED pools
    /\ UNCHANGED <<pool, mysqlUp, lastUse>>
    /\ UNCHANGED <<redisVars, fileVars, ctxVars>>

\* `await cur.execute(sql[, values])`, the handler's return and the release
\* of the connection.  out is what the backend does with the statement:
\* "error" (it rejects it), "empty" or "rows".
MExecute(c, out) ==
    /\ mcalls[c].pc = "execute"
    /\ LET call == mcalls[c]
           p == call.lpool
           rows == IF out = "rows" THEN <<"row">> ELSE << >>
       IN
       IF call.name = "execute_query" /\ "sql" \notin DOMAIN call.arguments
       THEN \* cur.execute(None): TypeError before anything is sent
            /\ mcalls' = [mcalls EXCEPT ![c] =
                  [@ EXCEPT !.pc = "done", !.conn = << >>,
                     !.result = HandlerError(call.name, "TypeError: object of type 'NoneType' has no len()")]]
            /\ pools' = [pools EXCEPT ![p] = Append(@, call.conn)]
            /\ UNCHANGED lastUse
       ELSE IF ~mysqlUp
       THEN \* the connection is lost: it is closed and not put back
            /\ mcalls' = [mcalls EXCEPT ![c] =
                  [@ EXCEPT !.pc = "done", !.conn = << >>,
                     !.result = HandlerError(call.name, "OperationalError: lost connection")]]
            /\ UNCHANGED <<pools, lastUse>>
       ELSE LET switched == call.name = "use_database" /\ out # "error"
                database == FmtArg(call.arguments, "database")
            IN
            /\ mcalls' = [mcalls EXCEPT ![c] =
                  [@ EXCEPT !.pc = "done", !.conn = << >>,
                     !.sent = TRUE, !.db = call.conn,
                     !.expectDb = IF lastUse = call.expectDb THEN lastUse ELSE <<"-">>,
                     !.result = IF out = "error"
                                THEN HandlerError(call.name, "ProgrammingError")
                                ELSE SuccessResult(call.name, call.arguments, rows)]]
            /\ pools' = [pools EXCEPT ![p] =
                            Append(@, IF switched THEN database ELSE call.conn)]
            /\ lastUse' = IF switched THEN database ELSE lastUse
    /\ UNCHANGED <<pool, mysqlUp>>
    /\ UNCHANGED <<redisVars, fileVars, ctxVars>>

\* The backend goes away or comes back.
MBackendFlip ==
    /\ mysqlUp' = ~mysqlUp
    /\ UNCHANGED <<pool, pools, lastUse, mcalls>>
    /\ UNCHANGED <<redisVars, fileVars, ctxVars>>

\* ====================================================== Redis server
RedisTools == {"set_value", "get_value", "delete_key", "list_keys", "list_push",
               "list_range", "batch_list_push"}

\* The required fields of list_tools()' inputSchema, per tool.
RedisRequired(name) ==
    CASE name \in {"set_value", "list_push"} -> {"key", "value"}
      [] name \in {"get_value", "delete_key", "list_range"} -> {"key"}
      [] name = "batch_list_push" -> {"items"}
      [] OTHER -> {}

RedisNames == RedisTools \cup {"flush_all"}
RedisKeys == {"a", "b"}
RedisValues == {"x", "y"}
\* a dict of list name -> values, in insertion order
ItemMaps == { << <<"a", <<"x", "y">> >>, <<"b", << >> >> >>,
              << <<"a", <<"y">> >> >>,
              << <<"b", <<"y", "x">> >>, <<"a", <<"x">> >> >> }

RedisFields(name) ==
    CASE name = "set_value" -> {"key", "value", "expiry"}
      [] name \in {"get_value", "delete_key", "flush_all"} -> {"key"}
      [] name = "list_keys" -> {"pattern"}
      [] name = "list_push" -> {"key", "value"}
      [] name = "list_range" -> {"key", "start", "end"}
      [] name = "batch_list_push" -> {"items"}

RedisFullBags(name) ==
    CASE name = "set_value" -> [key : RedisKeys, value : RedisValues, expiry : {10}]
      [] name \in {"get_value", "delete_key", "flush_all"} -> [key : RedisKeys]
      [] name = "list_keys" -> [pattern : {"a"}]
      [] name = "list_push" -> [key : RedisKeys, value : RedisValues]
      [] name = "list_range" -> [key : RedisKeys, start : {1}, end : {-2}]
      [] name = "batch_list_push" -> [items : ItemMaps]

RedisBags(name) == Bags(RedisFields(name), RedisFullBags(name))

NoKey == [type |-> "none", val |-> << >>, ttl |-> FALSE]

\* Redis LRANGE key start end on a list: negative indexes count from the
\* end, out-of-range indexes are clipped, both ends are inclusive.
LRange(list, start, end) ==
    LET n == Len(list)
        s0 == IF start < 0 THEN n + start ELSE start
        s1 == IF s0 < 0 THEN 0 ELSE s0
        e0 == IF end < 0 THEN n + end ELSE end
        e1 == IF e0 >= n THEN n - 1 ELSE e0
    IN IF s1 > e1 \/ s1 >= n THEN << >> ELSE SubSeq(list, s1 + 1, e1 + 1)

\* Redis KEYS pattern: "*" matches every key, a literal matches itself.
KeysMatching(st, pattern) ==
    { k \in RedisKeys : st[k].type # "none" /\ (pattern = "*" \/ pattern = k) }

\* A set of keys as the list client.keys() returns (here: sorted).
KeyList(ks) ==
    (IF "a" \in ks THEN <<"a">> ELSE << >>) \o (IF "b" \in ks THEN <<"b">> ELSE << >>)

\* DEL forgotten: the keyspace is left as it was.
DeleteNothing(st, key) == st

\* Redis DEL key: the keyspace after the command.
Delete(st, key) == [st EXCEPT ![key] = NoKey]

\* Redis RPUSH key v1 v2 ...: the key after the command.
RPush(entry, values) ==
    [type |-> "list", val |-> entry.val \o values, ttl |-> entry.ttl]

\* The text each handler's `except Exception as e` puts before str(e).
RedisError(name, arguments, message) ==
    IF name \in {"list_keys", "batch_list_push"}
    THEN TextResult(<<name, " failed: ", message>>)
    ELSE TextResult(<<name, " failed for key ", Get(arguments, "key", "None"), ": ",
                      message>>)

\* The fields whose value a single-command handler passes to the client
\* as a key or value: None there makes redis-py raise DataError.
EncodedFields(name) ==
    CASE name \in {"set_value", "list_push"} -> {"key", "value"}
      [] name \in {"get_value", "delete_key", "list_range"} -> {"key"}
      [] OTHER -> {}

\* i, results: batch_list_push's loop position and `results` list;
\* commands: the Redis commands the call has issued so far;
\* prior: for batch_list_push, the keyspace as the call found it.
IdleRCall ==
    [pc |-> "idle", name |-> "", arguments |-> << >>, i |-> 0, results |-> << >>,
     commands |-> 0, prior |-> << >>, result |-> NoResult]

\* f"成功添加{len(values)}个值到列表'{key}'，当前列表长度：{length}"
BatchLine(key, values, length) ==
    <<"pushed ", ToString(Len(values)), " values to list ", key, ", length now ",
      ToString(length)>>

\* "批量设置结果：\n" + "\n".join(results)
BatchResult(results) == TextResult(<<"batch result:">> \o results)

\* list_range's text for the values lrange returned (lines 98-100)
ListRangeResult(key, values) ==
    IF values = << >> THEN TextResult(<<"list ", key, " is empty or missing">>)
    ELSE TextResult(<<"list ", key, " elements:">> \o values)

\* A client calls a tool: call_tool up to the handler's first await.
RCallTool(c, name, arguments) ==
    /\ rcalls[c].pc \in {"idle", "done"}
    \* the model stops growing a list at MaxListLen
    /\ (name = "list_push" /\ "key" \in DOMAIN arguments)
          => Len(store[arguments["key"]].val) < MaxListLen
    /\ LET call == [IdleRCall EXCEPT !.name = name, !.arguments = arguments]
           items == Get(arguments, "items", << >>)
       IN rcalls' = [rcalls EXCEPT ![c] =
            IF name \notin RedisTools
            THEN [call EXCEPT !.pc = "done", !.result = UnknownTool(name)]
            ELSE IF name = "batch_list_push"
            THEN IF items = << >>
                 THEN [call EXCEPT !.pc = "done", !.result = BatchResult(<< >>)]
                 ELSE [call EXCEPT !.pc = "delete", !.i = 1, !.prior = store]
            ELSE [call EXCEPT !.pc = "command"]]
    /\ UNCHANGED <<store, redisUp>>
    /\ UNCHANGED <<mysqlVars, fileVars, ctxVars>>

\* The one Redis command of set_value, get_value, delete_key, list_keys,
\* list_push or list_range, and the handler's return.
RCommand(c) ==
    /\ rcalls[c].pc = "command"
    /\ LET call == rcalls[c]
           name == call.name
           arguments == call.arguments
           key == Get(arguments, "key", "None")
           entry == store[key]
           finish(res, st, n) ==
               /\ rcalls' = [rcalls EXCEPT ![c] =
                     [@ EXCEPT !.pc = "done", !.result = res, !.commands = n]]
               /\ store' = st
       IN
       IF ~redisUp
       THEN finish(RedisError(name, arguments, "ConnectionError"), store, 0)
       ELSE IF EncodedFields(name) \ DOMAIN arguments # {}
       THEN finish(RedisError(name, arguments, "DataError: Invalid input of type: 'NoneType'"),
                   store, 0)
       ELSE CASE name = "set_value" ->
                   finish(TextResult(<<"set value of key ", key>>),
                          [store EXCEPT ![key] =
                              [type |-> "string", val |-> <<arguments["value"]>>,
                               ttl |-> "expiry" \in DOMAIN arguments]], 1)
              [] name = "get_value" ->
                   IF entry.type = "list"
                   THEN finish(RedisError(name, arguments, "WRONGTYPE"), store, 1)
                   ELSE IF entry.type = "none"
                   THEN finish(TextResult(<<"key ", key, " does not exist">>), store, 1)
                   ELSE finish(TextResult(<<"value of key ", key, ": ">> \o entry.val),
                               store, 1)
              [] name = "delete_key" ->
                   IF entry.type # "none"
                   THEN finish(TextResult(<<"deleted key ", key>>), Delete(store, key), 1)
                   ELSE finish(TextResult(<<"key ", key, " does not exist">>), store, 1)
              [] name = "list_keys" ->
                   LET pattern == Get(arguments, "pattern", "*")
                       keys == KeyList(KeysMatching(store, pattern))
                   IN IF keys = << >>
                      THEN finish(TextResult(<<"no keys match ", pattern>>), store, 1)
                      ELSE finish(TextResult(<<"keys found:">> \o keys), store, 1)
              [] name = "list_push" ->
                   IF entry.type = "string"
                   THEN finish(RedisError(name, arguments, "WRONGTYPE"), store, 1)
                   ELSE finish(TextResult(<<"pushed to list ", key, ", length now ",
                                            ToString(Len(entry.val) + 1)>>),
                               [store EXCEPT ![key] = RPush(entry, <<arguments["value"]>>)],
                               1)
              [] name = "list_range" ->
                   IF entry.type = "string"
                   THEN finish(RedisError(name, arguments, "WRONGTYPE"), store, 1)
                   ELSE finish(ListRangeResult(key,
                                   LRange(entry.val, Get(arguments, "start", 0),
                                          Get(arguments, "end", -1))),
                               store, 1)
    /\ UNCHANGED redisUp
    /\ UNCHANGED <<mysqlVars, fileVars, ctxVars>>

\* batch_list_push, after the command for item i: the next iteration of the
\* loop, or the return after the last one.
BatchAdvance(call, results) ==
    IF call.i < Len(call.arguments["items"])
    THEN [call EXCEPT !.pc = "delete", !.i = @ + 1, !.results = results,
                      !.commands = @ + 1]
    ELSE [call EXCEPT !.pc = "done", !.results = results, !.commands = @ + 1,
                      !.result = BatchResult(results)]

\* batch_list_push: `await client.delete(key)` of iteration i.
RBatchDelete(c) ==
    /\ rcalls[c].pc = "delete"
    /\ LET call == rcalls[c]
           item == call.arguments["items"][call.i]
           key == item[1]
           values == item[2]
       IN
       IF ~redisUp
       THEN /\ rcalls' = [rcalls EXCEPT ![c] =
                  [@ EXCEPT !.pc = "done",
                     !.result = RedisError(call.name, call.arguments, "ConnectionError")]]
            /\ UNCHANGED store
       ELSE /\ store' = Delete(store, key)
            /\ rcalls' = [rcalls EXCEPT ![c] =
                  IF values # << >>
                  THEN [call EXCEPT !.pc = "rpush", !.commands = @ + 1]
                  ELSE BatchAdvance(call, call.results)]
    /\ UNCHANGED redisUp
    /\ UNCHANGED <<mysqlVars, fileVars, ctxVars>>

\* batch_list_push: `await client.rpush(key, *values)` of iteration i.
RBatchRpush(c) ==
    /\ rcalls[c].pc = "rpush"
    /\ LET call == rcalls[c]
           item == call.arguments["items"][call.i]
           key == item[1]
           values == item[2]
           entry == store[key]
       IN
       IF ~redisUp
       THEN /\ rcalls' = [rcalls EXCEPT ![c] =
                  [@ EXCEPT !.pc = "done",
                     !.result = RedisError(call.name, call.arguments, "ConnectionError")]]
            /\ UNCHANGED store
       ELSE IF entry.type = "string"
       THEN /\ rcalls' = [rcalls EXCEPT ![c] =
                  [@ EXCEPT !.pc = "done", !.commands = @ + 1,
                     !.result = RedisError(call.name, call.arguments, "WRONGTYPE")]]
            /\ UNCHANGED store
       ELSE /\ store' = [store EXCEPT ![key] = RPush(entry, values)]
            /\ rcalls' = [rcalls EXCEPT ![c] =
                  BatchAdvance(call,
                      call.results \o BatchLine(key, values, Len(entry.val) + Len(values)))]
    /\ UNCHANGED redisUp
    /\ UNCHANGED <<mysqlVars, fileVars, ctxVars>>

\* A key set with an expiry times out.
RExpire(k) ==
    /\ store[k].ttl
    /\ store' = [store EXCEPT ![k] = NoKey]
    /\ UNCHANGED <<redisUp, rcalls>>
    /\ UNCHANGED <<mysqlVars, fileVars, ctxVars>>

\* The backend goes away or comes back.
RBackendFlip ==
    /\ redisUp' = ~redisUp
    /\ UNCHANGED <<store, rcalls>>
    /\ UNCHANGED <<mysqlVars, fileVars, ctxVars>>

\* ================================================= dev-tools server
FileTools == {"search_code", "analyze_dependencies", "fetch_documentation"}

\* The required fields of list_tools()' inputSchema, per tool.
FileRequired(name) ==
    CASE name = "search_code" -> {"query"}
      [] name = "fetch_documentation" -> {"package"}
      [] OTHER -> {}

\* context_lines: int = 3
context_lines == 3

\* content.split('\n'): the pieces between newlines, at least one.
RECURSIVE Split(_)
Split(text) ==
    IF \A i \in 1..Len(text) : text[i] # "\n" THEN <<text>>
    ELSE LET i == CHOOSE j \in 1..Len(text) :
                     text[j] = "\n" /\ \A k \in 1..(j - 1) : text[k] # "\n"
         IN <<SubSeq(text, 1, i - 1)>> \o Split(SubSeq(text, i + 1, Len(text)))

\* seq[start:end] for 0 <= start: Python clips the end to the length.
Slice(seq, start, end) ==
    SubSeq(seq, start + 1, IF end > Len(seq) THEN Len(seq) ELSE end)

\* start = max(0, i - context_lines)
WindowStart(i) == IF i - context_lines > 0 THEN i - context_lines ELSE 0

\* The end of the window not clipped to the file.
WindowEndUnclipped(i, n) == i + context_lines + 1

\* end = min(len(lines), i + context_lines + 1)
WindowEnd(i, n) == IF i + context_lines + 1 < n THEN i + context_lines + 1 ELSE n

\* if query.lower() in line.lower()
LineMatches(line, q) == Contains(Lower(line), Lower(q))

RECURSIVE ContextFrom(_, _, _)
\* A get_context that folds a match into the block of the match on the line
\* just before it.
ContextFromMerged(lines, q, i) ==
    IF i >= Len(lines) THEN << >>
    ELSE (IF LineMatches(lines[i + 1], q) /\ ~(i > 0 /\ LineMatches(lines[i], q))
          THEN << [from |-> WindowStart(i) + 1,
                   to |-> WindowEnd(i, Len(lines)),
                   context |-> Slice(lines, WindowStart(i), WindowEnd(i, Len(lines)))] >>
          ELSE << >>)
         \o ContextFrom(lines, q, i + 1)

\* The `matches` list of get_context, one entry per loop iteration that
\* appended: f"行{start+1}-{end}:\n{context}" kept as its three parts, with
\* context = lines[start:end] before the join.
ContextFrom(lines, q, i) ==
    IF i >= Len(lines) THEN << >>
    ELSE (IF LineMatches(lines[i + 1], q)
          THEN << [from |-> WindowStart(i) + 1,
                   to |-> WindowEnd(i, Len(lines)),
                   context |-> Slice(lines, WindowStart(i), WindowEnd(i, Len(lines)))] >>
          ELSE << >>)
         \o ContextFrom(lines, q, i + 1)

ContextMatches(text, q) == ContextFrom(Split(text), q, 0)

\* f"行{start+1}-{end}:\n{context}" with context = "\n".join(lines[start:end])
BlockText(block) ==
    <<"lines ", ToString(block.from), "-", ToString(block.to), ":", "\n">>
    \o Join(block.context, <<"\n">>)

\* get_context(content, query): "\n\n".join(matches)
get_context(text, q) ==
    LET blocks == ContextMatches(text, q)
    IN Join([j \in 1..Len(blocks) |-> BlockText(blocks[j])], <<"\n", "\n">>)

\* The files of the machine, in the order glob yields them.  Paths are
\* absolute, as lists of components; the server runs in Cwd.
Cwd == <<"w">>
FileSystem ==
    << [dir |-> <<"w">>, name |-> "m.py", ext |-> ".py", readable |-> TRUE,
        content |-> <<"a", "B", "\n", "x">>],
       [dir |-> <<"w", "sub">>, name |-> "n.js", ext |-> ".js", readable |-> TRUE,
        content |-> <<"x", "\n", "A", "b">>],
       [dir |-> <<"w", "sub">>, name |-> "s.py", ext |-> ".py", readable |-> FALSE,
        content |-> <<"a", "b">>],
       [dir |-> <<"etc">>, name |-> "o.py", ext |-> ".py", readable |-> TRUE,
        content |-> <<"A", "B">>],
       [dir |-> <<"w">>, name |-> "requirements.txt", ext |-> ".txt", readable |-> TRUE,
        content |-> <<"x">>],
       [dir |-> <<"etc">>, name |-> "package.json", ext |-> ".json", readable |-> TRUE,
        content |-> <<"x">>] >>

\* The directory a glob pattern f"{directory}/**/..." walks: with an empty
\* directory the pattern starts with "/" and walks the filesystem root, "."
\* is the working directory, any other name is relative to it.
GlobRoot(directory) ==
    IF directory = << >> THEN << >>
    ELSE IF directory = <<".">> THEN Cwd
    ELSE Cwd \o directory

IsUnder(file, root) == StartsWith(file.dir, root)

\* The path glob reports: the directory as given, then the rest.
PathText(directory, file) ==
    directory \o <<"/">>
    \o Join([j \in 1..(Len(file.dir) - Len(GlobRoot(directory))) |->
                <<file.dir[Len(GlobRoot(directory)) + j], "/">>], << >>)
    \o <<file.name>>

\* glob.glob(f"{directory}/**/*{ext}", recursive=True)
GlobExt(directory, ext) ==
    LET keep(f) == IsUnder(f, GlobRoot(directory)) /\ f.ext = ext
    IN SelectSeq(FileSystem, keep)

SearchExts == <<".py", ".js", ".ts", ".jsx", ".tsx", ".html", ".css">>

\* search_code's `results` list: per extension, per file that can be read
\* and contains the query, f"文件：{filepath}\n{match_context}\n--".
RECURSIVE SearchFiles(_, _, _)
SearchFiles(files, q, directory) ==
    IF files = << >> THEN << >>
    ELSE LET f == Head(files)
         IN (IF f.readable /\ Contains(Lower(f.content), Lower(q))
             THEN << <<"file: ">> \o PathText(directory, f) \o <<"\n">>
                     \o get_context(f.content, q) \o <<"\n", "--">> >>
             ELSE << >>)
            \o SearchFiles(Tail(files), q, directory)

RECURSIVE SearchResults(_, _, _)
SearchResults(exts, q, directory) ==
    IF exts = << >> THEN << >>
    ELSE SearchFiles(GlobExt(directory, Head(exts)), q, directory)
         \o SearchResults(Tail(exts), q, directory)

\* search_code(query, directory)
search_code(q, directory) ==
    LET results == SearchResults(SearchExts, q, directory)
    IN IF results # << >>
       THEN TextResult(<<"search results:", "\n", "\n">> \o Join(results, <<"\n">>))
       ELSE TextResult(<<"in directory ">> \o directory \o <<" nothing matches ">> \o q)

\* dependency_files, flattened in iteration order: <<lang, file pattern>>
DependencyFiles ==
    << <<"python", "requirements.txt">>, <<"python", "setup.py">>,
       <<"python", "pyproject.toml">>, <<"node", "package.json">>,
       <<"dotnet", "*.csproj">>, <<"dotnet", "*.fsproj">>, <<"dotnet", "*.vbproj">> >>

PatternMatches(pattern, f) ==
    CASE pattern = "*.csproj" -> f.ext = ".csproj"
      [] pattern = "*.fsproj" -> f.ext = ".fsproj"
      [] pattern = "*.vbproj" -> f.ext = ".vbproj"
      [] OTHER -> f.name = pattern

RECURSIVE DependencyResults(_, _)
DependencyResults(patterns, directory) ==
    IF patterns = << >> THEN << >>
    ELSE LET lang == Head(patterns)[1]
             keep(f) == /\ IsUnder(f, GlobRoot(directory))
                        /\ PatternMatches(Head(patterns)[2], f)
                        /\ f.readable
             found == SelectSeq(FileSystem, keep)
         IN [j \in 1..Len(found) |->
                <<"in ">> \o PathText(directory, found[j]) \o <<" found ", lang,
                  " dependencies">>]
            \o DependencyResults(Tail(patterns), directory)

\* analyze_dependencies(directory)
analyze_dependencies(directory) ==
    LET results == DependencyResults(DependencyFiles, directory)
    IN IF results # << >>
       THEN TextResult(<<"dependency analysis:", "\n", "\n">> \o Join(results, <<"\n">>))
       ELSE TextResult(<<"in directory ">> \o directory \o <<" no dependency files">>)

\* What a registry request can end in: a network error, a timeout, a status
\* other than 200, a 200 whose body is not JSON, a 200 whose JSON has not the
\* expected shape (.get fails), a 200 with the expected document.
Responses == {"error", "timeout", "status", "unparsable", "badshape", "ok"}

FileNames == FileTools \cup {"format_disk"}
Queries == { <<"A", "b">>, <<"x">>, <<"z">> }
Directories == { <<".">>, <<"sub">> }
Packages == { <<"requests">>, <<"left-pad">> }

FileFields(name) ==
    CASE name \in {"search_code", "format_disk"} -> {"query", "directory"}
      [] name = "analyze_dependencies" -> {"directory"}
      [] name = "fetch_documentation" -> {"package"}

FileFullBags(name) ==
    CASE name \in {"search_code", "format_disk"} ->
            [query : Queries, directory : Directories]
      [] name = "analyze_dependencies" -> [directory : Directories]
      [] name = "fetch_documentation" -> [package : Packages]

FileBags(name) == Bags(FileFields(name), FileFullBags(name))

\* root: the directory tree a search or scan walked (<<"-">>: none);
\* log: the registry requests made, in order, as <<registry, response>>.
IdleFCall ==
    [pc |-> "idle", name |-> "", arguments |-> << >>, root |-> <<"-">>,
     log |-> << >>, result |-> NoResult]

\* call_tool of the dev-tools server, up to the first await: search_code and
\* analyze_dependencies never suspend, fetch_documentation awaits PyPI.
FCallTool(c, name, arguments) ==
    /\ fcalls[c].pc \in {"idle", "done"}
    /\ LET call == [IdleFCall EXCEPT !.name = name, !.arguments = arguments]
       IN fcalls' = [fcalls EXCEPT ![c] =
            CASE name = "search_code" ->
                   LET directory == Get(arguments, "directory", << >>)
                   IN [call EXCEPT !.pc = "done", !.root = GlobRoot(directory),
                         !.result = search_code(Get(arguments, "query", << >>), directory)]
              [] name = "analyze_dependencies" ->
                   LET directory == Get(arguments, "directory", <<".">>)
                   IN [call EXCEPT !.pc = "done", !.root = GlobRoot(directory),
                         !.result = analyze_dependencies(directory)]
              [] name = "fetch_documentation" -> [call EXCEPT !.pc = "primary"]
              [] OTHER -> [call EXCEPT !.pc = "done", !.result = UnknownTool(name)]]
    /\ UNCHANGED <<mysqlVars, redisVars, ctxVars>>

\* f"无法获取'{package}'的文档。"
NotFound(package) == TextResult(<<"cannot fetch documentation of ">> \o package)

\* The status check forgotten: any answered request counts.
SucceededAnyStatus(r) == r \in {"ok", "status"}

\* `if response.status_code == 200:` followed by a body that parses and has
\* the expected shape: the only response the handler returns a document for.
Succeeded(r) == r = "ok"

\* fetch_documentation, lines 77-88: the request to pypi.org ends in r.
FPrimary(c, r) ==
    /\ fcalls[c].pc = "primary"
    /\ LET call == fcalls[c]
           package == Get(call.arguments, "package", << >>)
       IN fcalls' = [fcalls EXCEPT ![c] =
            IF Succeeded(r)
            THEN [call EXCEPT !.pc = "done", !.log = Append(@, <<"pypi", r>>),
                    !.result = TextResult(package \o <<" documentation: summary, description">>)]
            ELSE [call EXCEPT !.pc = "secondary", !.log = Append(@, <<"pypi", r>>)]]
    /\ UNCHANGED <<mysqlVars, redisVars, ctxVars>>

\* fetch_documentation, lines 90-100: the request to registry.npmjs.org ends
\* in r; after a failure the not-found text is returned.
FSecondary(c, r) ==
    /\ fcalls[c].pc = "secondary"
    /\ LET call == fcalls[c]
           package == Get(call.arguments, "package", << >>)
       IN fcalls' = [fcalls EXCEPT ![c] =
            IF Succeeded(r)
            THEN [call EXCEPT !.pc = "done", !.log = Append(@, <<"npm", r>>),
                    !.result = TextResult(package \o <<" documentation: description">>)]
            ELSE [call EXCEPT !.pc = "done", !.log = Append(@, <<"npm", r>>),
                    !.result = NotFound(package)]]
    /\ UNCHANGED <<mysqlVars, redisVars, ctxVars>>

\* ================================================= get_context alone
\* The lines a file is made of and the search strings the model tries.
LineSet == { << >>, <<"x">>, <<"a", "B">> }
QuerySet == { <<"A", "b">>, <<"a", "b">>, <<"A", "B">>, <<"b">> }

FilesUpTo(n) == UNION { [1..k -> LineSet] : k \in 1..n }

\* search_code calls get_context(content, query) on one file's text.
GetContext ==
    /\ ~matches.done
    /\ matches' = [done |-> TRUE, blocks |-> ContextMatches(content, query)]
    /\ UNCHANGED <<content, query>>
    /\ UNCHANGED <<mysqlVars, redisVars, fileVars>>

\* ================================================= specifications
\* Each specification runs one server; the state of the others stays as
\* constructed.
InitMySQL ==
    /\ pool = 0
    /\ pools = << >>
    /\ mysqlUp \in BOOLEAN
    /\ lastUse = <<"-">>
    /\ mcalls = [c \in Calls |-> IdleMCall]
    /\ store = [k \in RedisKeys |-> NoKey]
    /\ redisUp = FALSE
    /\ rcalls = [c \in Calls |-> IdleRCall]
    /\ fcalls = [c \in Calls |-> IdleFCall]
    /\ content = << >>
    /\ query = << >>
    /\ matches = [done |-> FALSE, blocks |-> << >>]

InitRedis ==
    /\ pool = 0
    /\ pools = << >>
    /\ mysqlUp = FALSE
    /\ lastUse = <<"-">>
    /\ mcalls = [c \in Calls |-> IdleMCall]
    /\ store = [k \in RedisKeys |-> NoKey]
    /\ redisUp \in BOOLEAN
    /\ rcalls = [c \in Calls |-> IdleRCall]
    /\ fcalls = [c \in Calls |-> IdleFCall]
    /\ content = << >>
    /\ query = << >>
    /\ matches = [done |-> FALSE, blocks |-> << >>]

InitFile ==
    /\ pool = 0
    /\ pools = << >>
    /\ mysqlUp = FALSE
    /\ lastUse = <<"-">>
    /\ mcalls = [c \in Calls |-> IdleMCall]
    /\ store = [k \in RedisKeys |-> NoKey]
    /\ redisUp = FALSE
    /\ rcalls = [c \in Calls |-> IdleRCall]
    /\ fcalls = [c \in Calls |-> IdleFCall]
    /\ content = << >>
    /\ query = << >>
    /\ matches = [done |-> FALSE, blocks |-> << >>]

InitContext ==
    /\ pool = 0
    /\ pools = << >>
    /\ mysqlUp = FALSE
    /\ lastUse = <<"-">>
    /\ mcalls = [c \in Calls |-> IdleMCall]
    /\ store = [k \in RedisKeys |-> NoKey]
    /\ redisUp = FALSE
    /\ rcalls = [c \in Calls |-> IdleRCall]
    /\ fcalls = [c \in Calls |-> IdleFCall]
    /\ \E lines \in FilesUpTo(MaxLines) : content = Join(lines, <<"\n">>)
    /\ query \in QuerySet
    /\ matches = [done |-> FALSE, blocks |-> << >>]

\* The MySQL server under concurrent calls (pool creation, connections).
ConcurrentMySQLNames == {"list_tables", "use_database", "drop_everything"}
NextMySQL ==
    \/ \E c \in Calls, name \in ConcurrentMySQLNames :
         \E arguments \in MySQLBags(name) : MCallTool(c, name, arguments)
    \/ \E c \in Calls : MCreatePoolDone(c)
    \/ \E c \in Calls : MAcquire(c)
    \/ \E c \in Calls, out \in {"error", "empty", "rows"} : MExecute(c, out)
    \/ MBackendFlip
SpecMySQL == InitMySQL /\ [][NextMySQL]_vars

\* The MySQL server, every tool and argument bag, one call at a time.
NextMySQLTools ==
    \/ \E name \in MySQLNames :
         \E arguments \in MySQLBags(name) : MCallTool(1, name, arguments)
    \/ MCreatePoolDone(1)
    \/ MAcquire(1)
    \/ \E out \in {"error", "empty", "rows"} : MExecute(1, out)
    \/ MBackendFlip
SpecMySQLTools == InitMySQL /\ [][NextMySQLTools]_vars

\* The Redis server, every tool and argument bag, one call at a time.
NextRedisTools ==
    \/ \E name \in RedisNames :
         \E arguments \in RedisBags(name) : RCallTool(1, name, arguments)
    \/ RCommand(1)
    \/ RBatchDelete(1)
    \/ RBatchRpush(1)
    \/ \E k \in RedisKeys : RExpire(k)
    \/ RBackendFlip
SpecRedisTools == InitRedis /\ [][NextRedisTools]_vars

\* The Redis server under concurrent batch_list_push calls: the calls take
\* turns at each await of a Redis command.
ConcurrentItemMaps == { << <<"a", <<"x", "y">> >>, <<"b", << >> >> >>,
                        << <<"b", <<"y", "x">> >>, <<"a", <<"x">> >> >> }
NextRedis ==
    \/ \E c \in Calls, items \in ConcurrentItemMaps :
         RCallTool(c, "batch_list_push", [items |-> items])
    \/ \E c \in Calls : RBatchDelete(c)
    \/ \E c \in Calls : RBatchRpush(c)
    \/ RBackendFlip
SpecRedis == InitRedis /\ [][NextRedis]_vars

\* The dev-tools server, every tool and argument bag.
NextFile ==
    \/ \E name \in FileNames :
         \E arguments \in FileBags(name) : FCallTool(1, name, arguments)
    \/ \E r \in Responses : FPrimary(1, r)
    \/ \E r \in Responses : FSecondary(1, r)
SpecFile == InitFile /\ [][NextFile]_vars

\* get_context applied to every file and query within the bounds.
NextContext == GetContext
SpecContext == InitContext /\ [][NextContext]_vars

\* ================================================= claims
HasPiece(text, piece) == \E i \in 1..Len(text) : text[i] = piece

\* ---- C1
\* C1: when calls run get_pool while the global pool is unset, one pool is
\* created in total, every call gets that same pool, and the global, once
\* set, keeps the pool it was first given.
C1_OnePoolForAll ==
    /\ Len(pools) <= 1
    /\ \A c, d \in Calls :
         (mcalls[c].lpool # 0 /\ mcalls[d].lpool # 0)
            => mcalls[c].lpool = mcalls[d].lpool
    /\ pool # 0 => pool = 1

\* ---- C2
\* C2: every finished call of every server, whatever the backend did, has
\* returned one text result; no failure has left call_tool as an exception.
C2_NeverRaises ==
    /\ \A c \in Calls : mcalls[c].pc = "done" => mcalls[c].result.kind = "text"
    /\ \A c \in Calls : rcalls[c].pc = "done" => rcalls[c].result.kind = "text"
    /\ \A c \in Calls : fcalls[c].pc = "done" => fcalls[c].result.kind = "text"

\* ---- C3
\* C3: in each server a finished call whose name is not a listed tool has
\* returned the unknown-tool text, whatever its arguments and whatever the
\* backend's state.
C3_UnknownToolAnswered ==
    /\ \A c \in Calls :
         (mcalls[c].pc = "done" /\ mcalls[c].name \notin MySQLTools)
            => mcalls[c].result = UnknownTool(mcalls[c].name)
    /\ \A c \in Calls :
         (rcalls[c].pc = "done" /\ rcalls[c].name \notin RedisTools)
            => rcalls[c].result = UnknownTool(rcalls[c].name)
    /\ \A c \in Calls :
         (fcalls[c].pc = "done" /\ fcalls[c].name \notin FileTools)
            => fcalls[c].result = UnknownTool(fcalls[c].name)

\* ---- C4
\* A text result that names one of the given fields.
NamesOneOf(result, fields) ==
    /\ result.kind = "text"
    /\ \E f \in fields : HasPiece(result.text, f)

\* C4: a finished call of a tool that lacks a field its schema requires has
\* returned an error naming a missing field and has performed no backend
\* operation (no SQL statement, no Redis command, no search).  For MySQL it
\* is stated of the calls that returned a text, leaving the calls that end in
\* the pool-creation exception to C2.
C4_MissingFieldRejected ==
    /\ \A c \in Calls :
         LET call == mcalls[c]
             missing == MySQLRequired(call.name) \ DOMAIN call.arguments
         IN (call.pc = "done" /\ call.name \in MySQLTools /\ missing # {}
             /\ call.result.kind = "text")
              => (NamesOneOf(call.result, missing) /\ ~call.sent)
    /\ \A c \in Calls :
         LET call == rcalls[c]
             missing == RedisRequired(call.name) \ DOMAIN call.arguments
         IN (call.pc = "done" /\ call.name \in RedisTools /\ missing # {})
              => (NamesOneOf(call.result, missing) /\ call.commands = 0)
    /\ \A c \in Calls :
         LET call == fcalls[c]
             missing == FileRequired(call.name) \ DOMAIN call.arguments
         IN (call.pc = "done" /\ call.name \in FileTools /\ missing # {})
              => (NamesOneOf(call.result, missing)
                  /\ call.root = <<"-">> /\ call.log = << >>)

\* ---- C5
\* A batch_list_push call that has returned its success text.
BatchSucceeded(call) ==
    /\ call.pc = "done"
    /\ call.name = "batch_list_push"
    /\ "items" \in DOMAIN call.arguments
    /\ call.result.text[1] = "batch result:"

\* C5: after a batch_list_push that ran alone and succeeded, every list it
\* names holds exactly the given values in the given order (no list at all
\* for an empty sequence), whatever the key held before, and
\* list_range(name, 0, -1) on that state returns exactly those values.
C5_BatchReplaces ==
    LET call == rcalls[1]
    IN BatchSucceeded(call) =>
         \A n \in 1..Len(call.arguments["items"]) :
            LET key == call.arguments["items"][n][1]
                values == call.arguments["items"][n][2]
            IN /\ values # << >> =>
                    (store[key].type = "list" /\ store[key].val = values)
               /\ values = << >> => store[key].type = "none"
               /\ ListRangeResult(key, LRange(store[key].val, 0, -1))
                    = IF values = << >>
                      THEN TextResult(<<"list ", key, " is empty or missing">>)
                      ELSE TextResult(<<"list ", key, " elements:">> \o values)

\* A successful batch found a list with other content under a name it fills
\* and a list under a name it maps to the empty sequence.
C5_Witness ==
    LET call == rcalls[1]
    IN /\ BatchSucceeded(call)
       /\ \E n \in 1..Len(call.arguments["items"]) :
            LET key == call.arguments["items"][n][1]
                values == call.arguments["items"][n][2]
            IN /\ Len(values) = 2
               /\ call.prior[key].type = "list"
               /\ call.prior[key].val # values
               /\ call.prior[key].val # << >>
       /\ \E n \in 1..Len(call.arguments["items"]) :
            LET key == call.arguments["items"][n][1]
                values == call.arguments["items"][n][2]
            IN values = << >> /\ call.prior[key].type = "list"

\* ---- C6
\* A registry request that did not yield a document.
Failed(r) == r \in {"error", "timeout", "status", "unparsable", "badshape"}

\* C6: fetch_documentation asks PyPI first; it asks npm exactly when the PyPI
\* attempt failed; the not-found text comes only after both were asked and
\* both failed; and the call always ends in a text result.
C6_PrimaryThenSecondary ==
    \A c \in Calls :
       LET call == fcalls[c]
           log == call.log
       IN call.name = "fetch_documentation" =>
          /\ Len(log) <= 2
          /\ Len(log) >= 1 => log[1][1] = "pypi"
          /\ Len(log) = 2 => (log[2][1] = "npm" /\ Failed(log[1][2]))
          /\ call.pc = "secondary" <=> (Len(log) = 1 /\ Failed(log[1][2]))
          /\ call.pc = "done" =>
               /\ Len(log) >= 1
               /\ Len(log) = 2 <=> Failed(log[1][2])
               /\ call.result.kind = "text"
               /\ call.result = NotFound(Get(call.arguments, "package", << >>))
                    <=> (Len(log) = 2 /\ Failed(log[1][2]) /\ Failed(log[2][2]))

\* PyPI timed out, npm answered 404, and the not-found text was returned.
C6_Witness ==
    \E c \in Calls :
       /\ fcalls[c].pc = "done"
       /\ fcalls[c].log = << <<"pypi", "timeout">>, <<"npm", "status">> >>
       /\ fcalls[c].result = NotFound(Get(fcalls[c].arguments, "package", << >>))

\* ---- C7
\* C7: the statement of insert_data and update_data holds no column name and
\* no value of the caller's data mapping, so that any other mapping of the
\* same size gives the same statement text; and the condition of update_data
\* and delete_data ends the statement, verbatim, after WHERE.
C7_DataNeverInText ==
    \A c \in Calls :
       LET call == mcalls[c]
           arguments == call.arguments
       IN /\ (call.name \in {"insert_data", "update_data"} /\ call.stmt # << >>) =>
               /\ \A i \in 1..Len(arguments["data"]) :
                     /\ ~HasPiece(call.stmt, arguments["data"][i][1])
                     /\ ~HasPiece(call.stmt, arguments["data"][i][2])
               /\ \A other \in DataMaps :
                     Len(other) = Len(arguments["data"]) =>
                        StatementOf(call.name, [arguments EXCEPT !["data"] = other])
                           = call.stmt
          /\ (call.name \in {"update_data", "delete_data"} /\ call.stmt # << >>
              /\ "condition" \in DOMAIN arguments) =>
               \E head \in {SubSeq(call.stmt, 1, n) : n \in 0..Len(call.stmt)} :
                  call.stmt = head \o <<" WHERE ">> \o arguments["condition"]

\* ---- C8
\* Two characters that are the same letter in either case.
SameLetter(x, y) ==
    \/ x = y
    \/ <<x, y>> \in {<<"a", "A">>, <<"A", "a">>, <<"b", "B">>, <<"B", "b">>}

\* line holds q in some casing.
HoldsAnyCase(line, q) ==
    \E k \in 0..(Len(line) - Len(q)) :
       \A j \in 1..Len(q) : SameLetter(line[k + j], q[j])

\* C8: for a match on line L (1-indexed) of a file of N lines, the block of
\* that match reports the range max(1, L-3) .. min(N, L+3), the range holds
\* L, and the block's content is the file's lines of that range in order;
\* the lines matched are those holding the query in any casing.
C8_ContextWindow ==
    matches.done =>
       LET lines == Split(content)
           N == Len(lines)
           hits == {L \in 1..N : HoldsAnyCase(lines[L], query)}
       IN /\ Len(matches.blocks) = Cardinality(hits)
          /\ \A L \in hits :
                LET block == matches.blocks[Cardinality({h \in hits : h <= L})]
                    lo == IF L - 3 > 1 THEN L - 3 ELSE 1
                    hi == IF L + 3 < N THEN L + 3 ELSE N
                IN /\ block.from = lo
                   /\ block.to = hi
                   /\ block.from <= L /\ L <= block.to
                   /\ block.context = SubSeq(lines, lo, hi)

\* A file of seven lines or more whose first line matches (a window cut at
\* the file's start) and whose fourth line matches in another casing than
\* the query's, with a full window of seven lines.
C8_Witness ==
    /\ matches.done
    /\ LET lines == Split(content)
       IN /\ Len(lines) >= 7
          /\ lines[1] = <<"a", "B">>
          /\ lines[4] = <<"a", "B">>
          /\ query = <<"A", "b">>
          /\ Len(matches.blocks) >= 2
          /\ matches.blocks[1].from = 1 /\ matches.blocks[1].to = 4
          /\ matches.blocks[2].from = 1 /\ matches.blocks[2].to = 7

\* ---- C9
\* C9: a statement of execute_query, list_tables, describe_table,
\* insert_data, update_data or delete_data, sent by a call that began after
\* use_database(d) had returned success (and with no other use_database
\* succeeding in between), ran with d as the active database.  Stated for
\* the runs in which a single pool was created and d is a database the
\* caller named: the claim's cases that owe nothing to the race of C1.
C9_UseDatabaseSticks ==
    \A c \in Calls :
       LET call == mcalls[c]
       IN (/\ call.pc = "done"
           /\ call.sent
           /\ call.name \in {"execute_query", "list_tables", "describe_table",
                             "insert_data", "update_data", "delete_data"}
           /\ call.expectDb \in Databases
           /\ Len(pools) = 1)
          => call.db = call.expectDb

\* ---- C10
\* C10: search_code called without a directory walks the working directory,
\* the tree analyze_dependencies walks when its directory is omitted.
C10_DefaultRootIsCwd ==
    \A c \in Calls :
       LET call == fcalls[c]
       IN (/\ call.pc = "done"
           /\ call.name = "search_code"
           /\ "directory" \notin DOMAIN call.arguments)
          => call.root = GlobRoot(<<".">>)

\* ---- C11
Whitespace == {" ", "\t", "\n"}

\* The statement without its leading whitespace.
RECURSIVE SkipWhitespace(_)
SkipWhitespace(sql) ==
    IF sql # << >> /\ Head(sql) \in Whitespace THEN SkipWhitespace(Tail(sql))
    ELSE sql

\* The characters of a statement up to its first whitespace.
RECURSIVE FirstWord(_)
FirstWord(sql) ==
    IF sql = << >> \/ Head(sql) \in Whitespace THEN << >>
    ELSE <<Head(sql)>> \o FirstWord(Tail(sql))

\* The leading verb of a statement, whatever its case and leading whitespace.
LeadingVerb(sql) == Lower(FirstWord(SkipWhitespace(sql)))

\* select, show and describe (DESC being MySQL's short form of DESCRIBE)
ClaimedReadVerbs == { <<"s", "e", "l", "e", "c", "t">>, <<"s", "h", "o", "w">>,
                      <<"d", "e", "s", "c", "r", "i", "b", "e">>,
                      <<"d", "e", "s", "c">> }

ExecutedQuery(call) ==
    /\ call.pc = "done"
    /\ call.name = "execute_query"
    /\ call.sent
    /\ call.result.kind = "text"
    /\ call.result.text[1] # FailPrefix("execute_query")

\* C11: an execute_query whose statement executed returns the rows exactly
\* when the statement's leading verb is select, show or describe, and the
\* affected-row count otherwise; letter case and leading whitespace of the
\* statement play no part.
C11_ReadVerbClassifies ==
    \A c \in Calls :
       LET call == mcalls[c]
       IN ExecutedQuery(call) =>
            LET read == LeadingVerb(call.arguments["sql"]) \in ClaimedReadVerbs
            IN /\ read => call.result.text[1] = "query result: "
               /\ ~read => call.result.text[1] = "executed, affected rows: "

\* ---- C12
\* A step in which the pool creation of call c fails.
CreationFails(c) ==
    /\ mcalls[c].pc = "create_pool"
    /\ mcalls'[c].pc = "done"
    /\ mcalls'[c].result.kind = "raised"

\* C12: a step in which pool creation fails leaves the pool handle as it was
\* (unset when no other call has set it), the handle is only ever unset or a
\* completely created pool, and once the handle holds a pool no step clears
\* or replaces it.
C12_HandleKept ==
    [][/\ \A c \in Calls : CreationFails(c) => pool' = pool
       /\ pool' \in 0..Len(pools')
       /\ pool # 0 => pool' = pool]_vars

\* ---- C13
\* The matching lines of a file, in increasing order.
HitLines(lines, q) ==
    LET hits == {L \in 1..Len(lines) : HoldsAnyCase(lines[L], q)}
    IN [k \in 1..Cardinality(hits) |->
          CHOOSE L \in hits : Cardinality({h \in hits : h <= L}) = k]

\* C13: get_context gives one block per line holding the query in any
\* casing, the k-th block being the one of the k-th such line: it starts no
\* more than three lines before that line and ends no more than three after
\* it; blocks of overlapping or equal windows are all there, so there are as
\* many blocks as matching lines.
C13_OneBlockPerMatch ==
    matches.done =>
       LET lines == Split(content)
           hit == HitLines(lines, query)
           blocks == matches.blocks
       IN /\ Len(blocks) = Len(hit)
          /\ \A k \in 1..Len(blocks) :
                /\ blocks[k].from <= hit[k] /\ hit[k] <= blocks[k].to
                /\ hit[k] - blocks[k].from <= context_lines
                /\ blocks[k].to - hit[k] <= context_lines
          /\ \A j, k \in 1..Len(blocks) :
                j < k => /\ blocks[j].from <= blocks[k].from
                         /\ blocks[j].to <= blocks[k].to

\* A file of three lines whose first two lines match: two blocks of the same
\* window, the whole file, both kept.
C13_Witness ==
    /\ matches.done
    /\ LET lines == Split(content)
       IN /\ Len(lines) = 3
          /\ HoldsAnyCase(lines[1], query)
          /\ HoldsAnyCase(lines[2], query)
          /\ ~HoldsAnyCase(lines[3], query)
          /\ Len(matches.blocks) = 2
          /\ matches.blocks[1] = matches.blocks[2]
          /\ matches.blocks[1].from = 1 /\ matches.blocks[1].to = 3

\* ---- C14
\* The values a successful batch_list_push call gave for list key, if it
\* named that list.
ValuesFor(call, key) ==
    LET items == call.arguments["items"]
    IN { items[n][2] : n \in {m \in 1..Len(items) : items[m][1] = key} }

\* C14: when two batch_list_push calls that both name a list have both
\* returned success, the list holds the value sequence one of the two calls
\* gave for it, never values of both.
C14_OneBatchWins ==
    \A c, d \in Calls :
       (c # d /\ BatchSucceeded(rcalls[c]) /\ BatchSucceeded(rcalls[d])) =>
          \A key \in RedisKeys :
             (ValuesFor(rcalls[c], key) # {} /\ ValuesFor(rcalls[d], key) # {}) =>
                store[key].val \in ValuesFor(rcalls[c], key) \cup ValuesFor(rcalls[d], key)

====
